---- MODULE Spec2Model ----
(***************************************************************************)
(* jsonrpc_async.jsonrpc: a JSON-RPC 2.0 client over HTTP.                 *)
(*                                                                         *)
(* Server is the connection, Method the chainable call proxy.  A call is   *)
(* the caller's attribute chain on a Server, the invocation of the proxy   *)
(* (Method.__call__ -> Server.__request) and the coroutine send_request,   *)
(* which suspends at the POST, at response.json() and at                   *)
(* response.release().  Each call is one process of the model; the steps   *)
(* between two suspension points are one action.                           *)
(*                                                                         *)
(* Python values (arguments, decoded bodies, envelope fields) are tagged   *)
(* records; names are sequences of one-character strings so that           *)
(* startswith("_") and "%s.%s" are computed.                               *)
(***************************************************************************)
EXTENDS Integers, Sequences, FiniteSets, TLC

\* ------------------------------------------------------------- bounds
\* Longest attribute chain a caller spells.
MaxDepth == 2
\* random.randint(1, sys.maxsize) draws from 1..MaxId.
MaxId == 2
\* Calls in flight at once on one Server (SpecConc).
NumCalls == 2

\* ------------------------------------------------------ Python values
Nil == [t |-> "nil"]
PyNone == [t |-> "None"]
PyBool(b) == [t |-> "bool", b |-> b]
PyInt(n) == [t |-> "int", n |-> n]
PyStr(s) == [t |-> "str", s |-> s]
PyTuple(q) == [t |-> "tuple", q |-> q]
PyList(q) == [t |-> "list", q |-> q]
PyDict(m) == [t |-> "dict", m |-> m]
\* A value json.dumps cannot encode (a set, a datetime, any object).
PyObject == [t |-> "object"]
\* An exception object carried by another exception.
PyExc(cls) == [t |-> "exc", cls |-> cls]

EmptyDict == [k \in {} |-> Nil]

\* bool(v), as `if v:` and `a and b` and `a or b` evaluate it.
Truthy(v) ==
    CASE v.t = "None" -> FALSE
      [] v.t = "bool" -> v.b
      [] v.t = "int" -> v.n # 0
      [] v.t = "str" -> v.s # ""
      [] v.t \in {"tuple", "list"} -> v.q # <<>>
      [] v.t = "dict" -> DOMAIN v.m # {}
      [] OTHER -> TRUE

\* isinstance(v, collections.Mapping), on an interpreter that still has
\* collections.Mapping and asyncio.coroutine (the module does not load otherwise).
IsMapping(v) == v.t = "dict"

\* d.get(key, default) on a dict's entries
DictGet(m, key, default) == IF key \in DOMAIN m THEN m[key] ELSE default

\* the entries left by d.pop(key, ...)
DictWithout(m, key) == [k \in DOMAIN m \ {key} |-> m[k]]

\* a or b
PyOr(a, b) == IF Truthy(a) THEN a ELSE b

\* ---------------------------------------------------------- outcomes
Return(v) == [kind |-> "return", value |-> v]
Raise(exc, args) == [kind |-> "raise", exc |-> exc, args |-> args]

\* The text of a name: the characters joined.
RECURSIVE Str(_)
Str(chars) == IF chars = <<>> THEN "" ELSE chars[1] \o Str(Tail(chars))

StartsWith(chars, ch) == Len(chars) > 0 /\ chars[1] = ch

\* ------------------------------------------------- Server.parse_result
parse_result(result) ==
    IF result.t # "dict"
    THEN Raise("ProtocolError", <<PyStr("Response is not a dictionary")>>)
    ELSE IF Truthy(DictGet(result.m, "error", PyNone))
    THEN LET error == result.m["error"] IN
         IF error.t # "dict"
         THEN \* result['error'].get: only a dict has .get
              Raise("AttributeError", <<PyStr("object has no attribute 'get'")>>)
         ELSE Raise("ProtocolError",
                    <<DictGet(error.m, "code", PyStr("")),
                      DictGet(error.m, "message", PyStr("")),
                      result>>)
    ELSE IF "result" \notin DOMAIN result.m
    THEN Raise("ProtocolError", <<PyStr("Response without a result field")>>)
    ELSE Return(result.m["result"])

\* ---------------------------------------------------------- Server.dumps
\* json.dumps encodes None, bool, int, str, tuple, list and dict, and raises
\* TypeError on anything else.
RECURSIVE Serializable(_)
Serializable(v) ==
    CASE v.t \in {"None", "bool", "int", "str"} -> TRUE
      [] v.t \in {"tuple", "list"} -> \A i \in 1..Len(v.q) : Serializable(v.q[i])
      [] v.t = "dict" -> \A k \in DOMAIN v.m : Serializable(v.m[k])
      [] OTHER -> FALSE

\* The JSON text, as the value it denotes: a tuple is written as an array.
RECURSIVE ToJson(_)
ToJson(v) ==
    CASE v.t \in {"tuple", "list"} -> PyList([i \in 1..Len(v.q) |-> ToJson(v.q[i])])
      [] v.t = "dict" -> PyDict([k \in DOMAIN v.m |-> ToJson(v.m[k])])
      [] OTHER -> v

dumps(data) ==
    IF Serializable(data)
    THEN [ok |-> TRUE, text |-> ToJson(data)]
    ELSE [ok |-> FALSE, text |-> Nil]

\* ------------------------------------------------------ Server.serialize
\* serialize with the id written whether or not the call is a notification.
serializeAlwaysId(method_name, params, is_notification, id) ==
    LET keys == {"jsonrpc", "method", "id"}
                \cup (IF Truthy(params) THEN {"params"} ELSE {})
        data == [k \in keys |->
                   CASE k = "jsonrpc" -> PyStr("2.0")
                     [] k = "method" -> PyStr(Str(method_name))
                     [] k = "params" -> params
                     [] k = "id" -> PyInt(id)]
    IN  dumps(PyDict(data))

\* serialize with params written even when empty.
serializeAlwaysParams(method_name, params, is_notification, id) ==
    LET keys == {"jsonrpc", "method", "params"}
                \cup (IF ~Truthy(is_notification) THEN {"id"} ELSE {})
        data == [k \in keys |->
                   CASE k = "jsonrpc" -> PyStr("2.0")
                     [] k = "method" -> PyStr(Str(method_name))
                     [] k = "params" -> params
                     [] k = "id" -> PyInt(id)]
    IN  dumps(PyDict(data))

\* id is the value random.randint(1, sys.maxsize) returned for this call.
serialize(method_name, params, is_notification, id) ==
    LET keys == {"jsonrpc", "method"}
                \cup (IF Truthy(params) THEN {"params"} ELSE {})
                \cup (IF ~Truthy(is_notification) THEN {"id"} ELSE {})
        data == [k \in keys |->
                   CASE k = "jsonrpc" -> PyStr("2.0")
                     [] k = "method" -> PyStr(Str(method_name))
                     [] k = "params" -> params
                     [] k = "id" -> PyInt(id)]
    IN  dumps(PyDict(data))

\* ------------------------------------------------------ Server.__request
\* __request with the sole mapping unwrapped before the exclusivity check.
requestUnwrapFirst(method_name, args, kwargs) ==
    LET is_notification == DictGet(kwargs.m, "_notification", PyBool(FALSE))
        kw == PyDict(DictWithout(kwargs.m, "_notification"))
        a == IF Len(args.q) = 1 /\ IsMapping(args.q[1]) THEN args.q[1] ELSE args
    IN  IF Truthy(a) /\ Truthy(kw)
        THEN Raise("ProtocolError",
                   <<PyStr("JSON-RPC spec forbids mixing arguments and keyword arguments")>>)
        ELSE [kind |-> "coroutine",
              method_name |-> method_name,
              is_notification |-> is_notification,
              params |-> PyOr(a, kw)]

\* __request reading the flag with kwargs.get, the flag left among kwargs.
requestKeepFlag(method_name, args, kwargs) ==
    LET is_notification == DictGet(kwargs.m, "_notification", PyBool(FALSE))
    IN  IF Truthy(args) /\ Truthy(kwargs)
        THEN Raise("ProtocolError",
                   <<PyStr("JSON-RPC spec forbids mixing arguments and keyword arguments")>>)
        ELSE LET a == IF Len(args.q) = 1 /\ IsMapping(args.q[1])
                      THEN args.q[1]
                      ELSE args
             IN  [kind |-> "coroutine",
                  method_name |-> method_name,
                  is_notification |-> is_notification,
                  params |-> PyOr(a, kwargs)]

\* __request without the unwrapping of a sole mapping.
requestNoUnwrap(method_name, args, kwargs) ==
    LET is_notification == DictGet(kwargs.m, "_notification", PyBool(FALSE))
        kw == PyDict(DictWithout(kwargs.m, "_notification"))
    IN  IF Truthy(args) /\ Truthy(kw)
        THEN Raise("ProtocolError",
                   <<PyStr("JSON-RPC spec forbids mixing arguments and keyword arguments")>>)
        ELSE [kind |-> "coroutine",
              method_name |-> method_name,
              is_notification |-> is_notification,
              params |-> PyOr(args, kw)]

\* args is the tuple and kwargs the dict Method.__call__ passes.  The result
\* is the exception raised, or the coroutine send_request(...) returned.
request(method_name, args, kwargs) ==
    LET is_notification == DictGet(kwargs.m, "_notification", PyBool(FALSE))
        kw == PyDict(DictWithout(kwargs.m, "_notification"))
    IN  IF Truthy(args) /\ Truthy(kw)
        THEN Raise("ProtocolError",
                   <<PyStr("JSON-RPC spec forbids mixing arguments and keyword arguments")>>)
        ELSE LET a == IF Len(args.q) = 1 /\ IsMapping(args.q[1])
                      THEN args.q[1]
                      ELSE args
             IN  [kind |-> "coroutine",
                  method_name |-> method_name,
                  is_notification |-> is_notification,
                  params |-> PyOr(a, kw)]

\* ---------------------------------------------------------------- Method
MethodInit(method_name) ==
    IF StartsWith(method_name, "_")
    THEN Raise("AttributeError", <<PyStr("invalid attribute '" \o Str(method_name) \o "'")>>)
    ELSE [kind |-> "Method", method_name |-> method_name]

\* Method.__getattr__ relying on Method.__init__'s check of the joined name.
MethodGetAttrUnchecked(self, method_name) ==
    MethodInit(self.method_name \o <<".">> \o method_name)

MethodGetAttr(self, method_name) ==
    IF StartsWith(method_name, "_")
    THEN Raise("AttributeError", <<PyStr("invalid attribute '" \o Str(method_name) \o "'")>>)
    ELSE MethodInit(self.method_name \o <<".">> \o method_name)

\* --------------------------------------------------- Server.__getattr__
\* The attributes a Server has: the instance attributes __init__ sets and the
\* public methods of the class.  Python consults __getattr__ only for a name
\* that is none of them.
ServerMembers ==
    { <<"s","e","s","s","i","o","n">>,
      <<"r","e","q","u","e","s","t">>,
      <<"s","e","n","d","_","r","e","q","u","e","s","t">>,
      <<"p","a","r","s","e","_","r","e","s","u","l","t">>,
      <<"d","u","m","p","s">>,
      <<"s","e","r","i","a","l","i","z","e">> }

ServerGetAttr(method_name) ==
    IF method_name \in ServerMembers
    THEN [kind |-> "member", name |-> method_name]
    ELSE MethodInit(method_name)

GetAttr(obj, name) ==
    IF obj.kind = "Server" THEN ServerGetAttr(name) ELSE MethodGetAttr(obj, name)

\* ------------------------------------------------------------ inputs
\* Segments a caller spells: two ordinary names, a private one, and one that
\* is also an attribute of Server.  (Python's own dunder and name-mangled
\* attributes are not method-name segments and are left out.)
Segments ==
    { <<"a">>, <<"b">>, <<"_","p">>, <<"s","e","s","s","i","o","n">> }

\* Positional arguments of an invocation (the tuple *args).
ArgTuples ==
    { PyTuple(<<>>),
      PyTuple(<<PyInt(1)>>),
      PyTuple(<<PyInt(1), PyInt(2)>>),
      PyTuple(<<PyNone>>),
      PyTuple(<<PyObject>>),
      PyTuple(<<PyDict(EmptyDict)>>),
      PyTuple(<<PyDict([x |-> PyInt(1)])>>),
      PyTuple(<<PyDict([k \in {"_notification"} |-> PyBool(TRUE)])>>) }

\* Keyword arguments of an invocation (the dict **kwargs).
KwargDicts ==
    { PyDict(EmptyDict),
      PyDict([x |-> PyInt(1)]),
      PyDict([k \in {"_notification"} |-> PyBool(TRUE)]),
      PyDict([k \in {"_notification"} |-> PyBool(FALSE)]),
      PyDict([k \in {"x", "_notification"} |->
                 IF k = "x" THEN PyInt(1) ELSE PyBool(TRUE)]) }

\* Exceptions the awaited session.post may raise.  asyncio.TimeoutError is
\* neither of the two classes send_request catches.
PostExceptions == {"ClientResponseError", "ClientOSError", "TimeoutError"}

\* Values of the `error` and `result` fields of a decoded reply.
ErrorValues ==
    { PyNone, PyInt(0), PyStr("boom"), PyInt(5), PyList(<<PyInt(1)>>),
      PyDict(EmptyDict),
      PyDict([code |-> PyInt(1)]),
      PyDict([data |-> PyInt(7)]),
      PyDict([code |-> PyInt(1), message |-> PyStr("bad")]) }

ResultValues == { PyNone, PyBool(FALSE), PyInt(0), PyStr(""), PyInt(42) }

\* What response.json() yields: a decoded value, a ValueError (the body is
\* not JSON), or another failure of the read (the payload broke off).
DecodedValues ==
    { PyStr("not-a-dict"), PyList(<<>>), PyNone, PyInt(3), PyDict(EmptyDict) }
    \cup { PyDict([k \in {"error"} |-> e]) : e \in ErrorValues }
    \cup { PyDict([k \in {"result"} |-> r]) : r \in ResultValues }
    \cup { PyDict([k \in {"error", "result"} |-> IF k = "error" THEN e ELSE r]) :
             e \in ErrorValues, r \in ResultValues }

Decoded(v) == [read |-> "value", value |-> v]
Undecodable == [read |-> "ValueError", value |-> Nil]
Broken == [read |-> "ClientPayloadError", value |-> Nil]

Bodies == { Decoded(v) : v \in DecodedValues } \cup { Undecodable, Broken }

Response(status, reason, body) == [status |-> status, reason |-> reason, body |-> body]

Responses ==
    { Response(200, "OK", b) : b \in Bodies }
    \cup { Response(st[1], st[2], b) :
             st \in { <<204, "No Content">>, <<500, "Internal Server Error">> },
             b \in { Decoded(PyDict([k \in {"result"} |-> PyInt(42)])),
                     Decoded(PyDict([k \in {"error"} |-> PyStr("boom")])),
                     Undecodable } }

\* ------------------------------------------------------------- state
VARIABLES
    pc,            \* where each call is
    target,        \* the object the caller's chain has reached
    accessed,      \* the segments the caller has accessed, in order
    call_args,     \* *args of the invocation
    call_kwargs,   \* **kwargs of the invocation
    coro,          \* the arguments of the coroutine send_request
    request_body,  \* the body handed to session.post
    response,      \* the response object the POST yielded
    pending,       \* what the try block returned or raised, while finally runs
    outcome,       \* what the caller got
    events,        \* what the call did to its collaborators, in order
    post_exc,      \* the exception the awaited POST raised, if it did
    conn,          \* the Server's url and post_kwargs, as __init__ left them
    held,          \* the Method objects the caller keeps
    held_names,    \* the chain each kept Method was spelled with
    invoked_proxy  \* which kept Method a call invoked (0: none of them)

vars == <<pc, target, accessed, call_args, call_kwargs, coro, request_body,
          response, pending, outcome, events, post_exc, conn, held,
          held_names, invoked_proxy>>

\* What the steps of a call's own chain and coroutine leave alone.
aux == <<conn, held, held_names, invoked_proxy>>

\* Server.__init__: the headers default to JSON unless the caller gave them.
ServerInit(url, post_kwargs) ==
    LET given == DictGet(post_kwargs, "headers", EmptyDict)
        headers == [k \in DOMAIN given \cup {"Content-Type", "Accept"} |->
                      CASE k = "Content-Type" ->
                               DictGet(given, "Content-Type", "application/json")
                        [] k = "Accept" ->
                               DictGet(given, "Accept", "application/json-rpc")
                        [] OTHER -> given[k]]
    IN  [url |-> url,
         post_kwargs |-> [k \in DOMAIN post_kwargs \cup {"headers"} |->
                            IF k = "headers" THEN headers ELSE post_kwargs[k]]]

\* **post_kwargs of the constructor: none, or the caller's own headers.
PostKwargs ==
    { EmptyDict,
      [k \in {"headers"} |-> [h \in {"Content-Type"} |-> "text/plain"]] }

TheUrl == "http://server/rpc"

TheServer == [kind |-> "Server"]

InitCalls(C) ==
    /\ pc = [c \in C |-> "accumulating"]
    /\ target = [c \in C |-> TheServer]
    /\ accessed = [c \in C |-> <<>>]
    /\ call_args = [c \in C |-> Nil]
    /\ call_kwargs = [c \in C |-> Nil]
    /\ coro = [c \in C |-> Nil]
    /\ request_body = [c \in C |-> Nil]
    /\ response = [c \in C |-> Nil]
    /\ pending = [c \in C |-> Nil]
    /\ outcome = [c \in C |-> Nil]
    /\ events = [c \in C |-> <<>>]
    /\ post_exc = [c \in C |-> Nil]
    /\ invoked_proxy = [c \in C |-> 0]
    /\ held = <<>>
    /\ held_names = <<>>

\* The call ends: the caller gets `out`.
Finish(c, out) ==
    /\ pc' = [pc EXCEPT ![c] = "done"]
    /\ outcome' = [outcome EXCEPT ![c] = out]

\* ---------------------------------------------------- the caller's chain
\* getattr(target, seg): Server.__getattr__ or Method.__getattr__.
Access(c, S) ==
    /\ UNCHANGED <<aux, post_exc>>
    /\ pc[c] = "accumulating"
    /\ target[c].kind \in {"Server", "Method"}
    /\ Len(accessed[c]) < MaxDepth
    /\ \E seg \in S :
         LET got == GetAttr(target[c], seg) IN
         /\ accessed' = [accessed EXCEPT ![c] = Append(@, seg)]
         /\ IF got.kind = "raise"
            THEN /\ target' = [target EXCEPT ![c] = Nil]
                 /\ Finish(c, got)
            ELSE /\ target' = [target EXCEPT ![c] = got]
                 /\ UNCHANGED <<pc, outcome>>
    /\ UNCHANGED <<call_args, call_kwargs, coro, request_body, response,
                   pending, events>>

\* The chain reached an attribute of the Server itself (the session, a bound
\* method): whatever the caller does with it, no Method is involved and
\* Server.__request is not reached.
UseMember(c) ==
    /\ UNCHANGED <<aux, post_exc>>
    /\ pc[c] = "accumulating"
    /\ target[c].kind = "member"
    /\ Finish(c, [kind |-> "foreign"])
    /\ UNCHANGED <<target, accessed, call_args, call_kwargs, coro,
                   request_body, response, pending, events>>

\* Method.__call__(*args, **kwargs) -> Server.__request(name, args, kwargs)
Invoke(c, A, K) ==
    /\ UNCHANGED <<aux, post_exc>>
    /\ pc[c] = "accumulating"
    /\ target[c].kind = "Method"
    /\ \E args \in A, kwargs \in K :
         LET got == request(target[c].method_name, args, kwargs) IN
         /\ call_args' = [call_args EXCEPT ![c] = args]
         /\ call_kwargs' = [call_kwargs EXCEPT ![c] = kwargs]
         /\ IF got.kind = "raise"
            THEN /\ Finish(c, got)
                 /\ UNCHANGED coro
            ELSE /\ pc' = [pc EXCEPT ![c] = "created"]
                 /\ coro' = [coro EXCEPT ![c] = got]
                 /\ UNCHANGED outcome
    /\ UNCHANGED <<target, accessed, request_body, response, pending, events>>

\* --------------------------------------------------- Server.send_request
\* The coroutine starts: serialize, then session.post(url, data=request_body)
\* is awaited.
SendRequest(c) ==
    /\ UNCHANGED <<aux, post_exc>>
    /\ pc[c] = "created"
    /\ \E id \in 1..MaxId :
         LET request_body_ == serialize(coro[c].method_name, coro[c].params,
                                        coro[c].is_notification, id) IN
         IF request_body_.ok
         THEN /\ request_body' = [request_body EXCEPT ![c] = request_body_.text]
              /\ events' = [events EXCEPT ![c] = <<"serialize", "post">>]
              /\ pc' = [pc EXCEPT ![c] = "posting"]
              /\ UNCHANGED outcome
         ELSE /\ events' = [events EXCEPT ![c] = <<"serialize">>]
              /\ Finish(c, Raise("TypeError", <<PyStr("not JSON serializable")>>))
              /\ UNCHANGED request_body
    /\ UNCHANGED <<target, accessed, call_args, call_kwargs, coro, response, pending>>

\* The POST issued again after it raised.
PostFailsRetry(c, E) ==
    /\ UNCHANGED <<aux, post_exc>>
    /\ pc[c] = "posting"
    /\ \E exc \in E :
         events' = [events EXCEPT ![c] = Append(@, "post")]
    /\ UNCHANGED <<pc, outcome, target, accessed, call_args, call_kwargs, coro,
                   request_body, response, pending>>

\* A send_request whose except clause names ClientResponseError alone.
PostFailsCatchesOne(c, E) ==
    /\ UNCHANGED aux
    /\ pc[c] = "posting"
    /\ \E exc \in E :
         /\ post_exc' = [post_exc EXCEPT ![c] = PyExc(exc)]
         /\ Finish(c, IF exc = "ClientResponseError"
                      THEN Raise("TransportError",
                                 <<PyStr("Error calling method '"
                                         \o Str(coro[c].method_name) \o "'"),
                                   PyExc(exc)>>)
                      ELSE Raise(exc, <<>>))
    /\ UNCHANGED <<target, accessed, call_args, call_kwargs, coro, request_body,
                   response, pending, events>>

\* The awaited POST raises.
PostFails(c, E) ==
    /\ UNCHANGED aux
    /\ pc[c] = "posting"
    /\ \E exc \in E :
         /\ post_exc' = [post_exc EXCEPT ![c] = PyExc(exc)]
         /\ Finish(c, IF exc \in {"ClientResponseError", "ClientOSError"}
                      THEN Raise("TransportError",
                                 <<PyStr("Error calling method '"
                                         \o Str(coro[c].method_name) \o "'"),
                                   PyExc(exc)>>)
                      ELSE Raise(exc, <<>>))
    /\ UNCHANGED <<target, accessed, call_args, call_kwargs, coro, request_body,
                   response, pending, events>>

\* finally: yield from response.release().  `out` is what the try block
\* returned or raised, `ev` the call's events so far.
\* A release only on the normal way out, as without try/finally.
ExitWithoutFinally(c, out, ev) ==
    IF out.kind = "raise"
    THEN /\ pc' = [pc EXCEPT ![c] = "done"]
         /\ outcome' = [outcome EXCEPT ![c] = out]
         /\ events' = [events EXCEPT ![c] = ev]
         /\ UNCHANGED pending
    ELSE /\ pc' = [pc EXCEPT ![c] = "releasing"]
         /\ pending' = [pending EXCEPT ![c] = out]
         /\ events' = [events EXCEPT ![c] = Append(ev, "release")]
         /\ UNCHANGED outcome

Exit(c, out, ev) ==
    /\ pc' = [pc EXCEPT ![c] = "releasing"]
    /\ pending' = [pending EXCEPT ![c] = out]
    /\ events' = [events EXCEPT ![c] = Append(ev, "release")]
    /\ UNCHANGED outcome

\* The status check taking every 2xx status for success.
PostRespondsAny2xx(c, R) ==
    /\ UNCHANGED <<aux, post_exc>>
    /\ pc[c] = "posting"
    /\ \E resp \in R :
         LET ev == Append(events[c], "status") IN
         /\ response' = [response EXCEPT ![c] = resp]
         /\ IF resp.status \notin 200..299
            THEN Exit(c, Raise("TransportError",
                               <<PyStr("HTTP " \o ToString(resp.status)
                                       \o " " \o resp.reason)>>), ev)
            ELSE IF ~Truthy(coro[c].is_notification)
            THEN /\ pc' = [pc EXCEPT ![c] = "reading"]
                 /\ events' = [events EXCEPT ![c] = Append(ev, "json")]
                 /\ UNCHANGED <<pending, outcome>>
            ELSE Exit(c, Return(PyNone), ev)
    /\ UNCHANGED <<target, accessed, call_args, call_kwargs, coro, request_body>>

\* A notification returning before the status is looked at.
PostRespondsNotificationFirst(c, R) ==
    /\ UNCHANGED <<aux, post_exc>>
    /\ pc[c] = "posting"
    /\ \E resp \in R :
         LET ev == Append(events[c], "status") IN
         /\ response' = [response EXCEPT ![c] = resp]
         /\ IF Truthy(coro[c].is_notification)
            THEN Exit(c, Return(PyNone), ev)
            ELSE IF resp.status # 200
            THEN Exit(c, Raise("TransportError",
                               <<PyStr("HTTP " \o ToString(resp.status)
                                       \o " " \o resp.reason)>>), ev)
            ELSE /\ pc' = [pc EXCEPT ![c] = "reading"]
                 /\ events' = [events EXCEPT ![c] = Append(ev, "json")]
                 /\ UNCHANGED <<pending, outcome>>
    /\ UNCHANGED <<target, accessed, call_args, call_kwargs, coro, request_body>>

\* The body read started before the status is looked at.
PostRespondsReadFirst(c, R) ==
    /\ UNCHANGED <<aux, post_exc>>
    /\ pc[c] = "posting"
    /\ \E resp \in R :
         LET ev == Append(events[c], "status") IN
         /\ response' = [response EXCEPT ![c] = resp]
         /\ IF resp.status # 200
            THEN Exit(c, Raise("TransportError",
                               <<PyStr("HTTP " \o ToString(resp.status)
                                       \o " " \o resp.reason)>>), events[c] \o <<"json", "status">>)
            ELSE IF ~Truthy(coro[c].is_notification)
            THEN /\ pc' = [pc EXCEPT ![c] = "reading"]
                 /\ events' = [events EXCEPT ![c] = Append(ev, "json")]
                 /\ UNCHANGED <<pending, outcome>>
            ELSE Exit(c, Return(PyNone), ev)
    /\ UNCHANGED <<target, accessed, call_args, call_kwargs, coro, request_body>>

\* The awaited POST yields a response: the status check, then either the
\* await of response.json() or the way out through finally.
PostResponds(c, R) ==
    /\ UNCHANGED <<aux, post_exc>>
    /\ pc[c] = "posting"
    /\ \E resp \in R :
         LET ev == Append(events[c], "status") IN
         /\ response' = [response EXCEPT ![c] = resp]
         /\ IF resp.status # 200
            THEN Exit(c, Raise("TransportError",
                               <<PyStr("HTTP " \o ToString(resp.status)
                                       \o " " \o resp.reason)>>), ev)
            ELSE IF ~Truthy(coro[c].is_notification)
            THEN /\ pc' = [pc EXCEPT ![c] = "reading"]
                 /\ events' = [events EXCEPT ![c] = Append(ev, "json")]
                 /\ UNCHANGED <<pending, outcome>>
            ELSE Exit(c, Return(PyNone), ev)
    /\ UNCHANGED <<target, accessed, call_args, call_kwargs, coro, request_body>>

\* response.json() without the except clause: the ValueError passes on.
BodyReadUnwrapped(c) ==
    /\ UNCHANGED <<aux, post_exc>>
    /\ pc[c] = "reading"
    /\ LET body == response[c].body IN
       IF body.read = "value"
       THEN Exit(c, parse_result(body.value), Append(events[c], "parse_result"))
       ELSE Exit(c, Raise(body.read, <<>>), events[c])
    /\ UNCHANGED <<target, accessed, call_args, call_kwargs, coro, request_body,
                   response>>

\* A send_request that keeps the response on the Server, so that the body a
\* call reads is the body of whichever response was stored there.
BodyReadShared(c) ==
    /\ UNCHANGED <<aux, post_exc>>
    /\ pc[c] = "reading"
    /\ \E d \in DOMAIN response :
         /\ response[d] # Nil
         /\ LET body == response[d].body IN
            IF body.read = "value"
            THEN Exit(c, parse_result(body.value),
                      Append(events[c], "parse_result"))
            ELSE IF body.read = "ValueError"
            THEN Exit(c, Raise("TransportError",
                               <<PyStr("Cannot deserialize response body"),
                                 PyExc("ValueError")>>), events[c])
            ELSE Exit(c, Raise(body.read, <<>>), events[c])
    /\ UNCHANGED <<target, accessed, call_args, call_kwargs, coro, request_body,
                   response>>

\* The awaited response.json() completes: parse_result, or the ValueError
\* wrapped, or another exception passed on; then finally.
BodyRead(c) ==
    /\ UNCHANGED <<aux, post_exc>>
    /\ pc[c] = "reading"
    /\ LET body == response[c].body IN
       IF body.read = "value"
       THEN Exit(c, parse_result(body.value), Append(events[c], "parse_result"))
       ELSE IF body.read = "ValueError"
       THEN Exit(c, Raise("TransportError",
                          <<PyStr("Cannot deserialize response body"),
                            PyExc("ValueError")>>), events[c])
       ELSE Exit(c, Raise(body.read, <<>>), events[c])
    /\ UNCHANGED <<target, accessed, call_args, call_kwargs, coro, request_body,
                   response>>

\* The awaited response.release() completes: the pending return or raise
\* reaches the caller.
Released(c) ==
    /\ UNCHANGED <<aux, post_exc>>
    /\ pc[c] = "releasing"
    /\ Finish(c, pending[c])
    /\ UNCHANGED <<target, accessed, call_args, call_kwargs, coro, request_body,
                   response, pending, events>>

\* ------------------------------------------------------ specifications
\* One call, every input.
Init ==
    /\ InitCalls({1})
    /\ conn \in { ServerInit(TheUrl, kw) : kw \in PostKwargs }

Next ==
    \/ \E c \in DOMAIN pc : Access(c, Segments)
    \/ \E c \in DOMAIN pc : UseMember(c)
    \/ \E c \in DOMAIN pc : Invoke(c, ArgTuples, KwargDicts)
    \/ \E c \in DOMAIN pc : SendRequest(c)
    \/ \E c \in DOMAIN pc : PostFails(c, PostExceptions)
    \/ \E c \in DOMAIN pc : PostResponds(c, Responses)
    \/ \E c \in DOMAIN pc : BodyRead(c)
    \/ \E c \in DOMAIN pc : Released(c)

Spec == Init /\ [][Next]_vars

\* Several calls in flight on one Server, over fewer inputs.
ConcSegments == { <<"a">> }
ConcArgTuples == { PyTuple(<<>>) }
ConcKwargDicts ==
    { PyDict(EmptyDict), PyDict([k \in {"_notification"} |-> PyBool(TRUE)]) }
ConcPostExceptions == { "ClientOSError" }
ConcResponses ==
    { Response(200, "OK", Decoded(PyDict([k \in {"result"} |-> PyInt(42)]))),
      Response(500, "Internal Server Error", Undecodable) }

InitConc ==
    /\ InitCalls(1..NumCalls)
    /\ conn = ServerInit(TheUrl, EmptyDict)

NextConc ==
    \/ \E c \in DOMAIN pc : Access(c, ConcSegments)
    \/ \E c \in DOMAIN pc : Invoke(c, ConcArgTuples, ConcKwargDicts)
    \/ \E c \in DOMAIN pc : SendRequest(c)
    \/ \E c \in DOMAIN pc : PostFails(c, ConcPostExceptions)
    \/ \E c \in DOMAIN pc : PostResponds(c, ConcResponses)
    \/ \E c \in DOMAIN pc : BodyRead(c)
    \/ \E c \in DOMAIN pc : Released(c)

SpecConc == InitConc /\ [][NextConc]_vars

\* ------------------------------------------------ Method objects kept
\* The caller keeps Method objects in variables of its own, extends them and
\* invokes them, in any order and any number of times.
MaxHeld == 2

\* A Method whose __getattr__ extends its own name in place.
MethodAfterGetAttrInPlace(self, method_name) ==
    [self EXCEPT !.method_name = @ \o <<".">> \o method_name]

\* What Method.__getattr__ leaves of the Method it was called on: it reads
\* self.__method_name and self.__send and assigns to neither.
MethodAfterGetAttr(self, method_name) == self

\* getattr(server, seg) or getattr(held[i], seg), the result kept as well.
Extend(S) ==
    /\ Len(held) < MaxHeld
    /\ \E i \in 0..Len(held), seg \in S :
         LET obj == IF i = 0 THEN TheServer ELSE held[i]
             got == GetAttr(obj, seg) IN
         /\ got.kind = "Method"
         /\ held' = Append(IF i = 0 THEN held
                           ELSE [held EXCEPT ![i] = MethodAfterGetAttr(@, seg)],
                           got)
         /\ held_names' = Append(held_names,
                                 IF i = 0 THEN <<seg>>
                                 ELSE Append(held_names[i], seg))
    /\ UNCHANGED <<pc, target, accessed, call_args, call_kwargs, coro,
                   request_body, response, pending, outcome, events, post_exc,
                   conn, invoked_proxy>>

\* held[i](*args, **kwargs): Method.__call__ passes its name to
\* Server.__request and leaves the Method as it is.
InvokeHeld(c, A, K) ==
    /\ pc[c] = "accumulating"
    /\ target[c].kind = "Server"
    /\ \E i \in 1..Len(held), args \in A, kwargs \in K :
         LET got == request(held[i].method_name, args, kwargs) IN
         /\ invoked_proxy' = [invoked_proxy EXCEPT ![c] = i]
         /\ target' = [target EXCEPT ![c] = held[i]]
         /\ call_args' = [call_args EXCEPT ![c] = args]
         /\ call_kwargs' = [call_kwargs EXCEPT ![c] = kwargs]
         /\ IF got.kind = "raise"
            THEN /\ Finish(c, got)
                 /\ UNCHANGED coro
            ELSE /\ pc' = [pc EXCEPT ![c] = "created"]
                 /\ coro' = [coro EXCEPT ![c] = got]
                 /\ UNCHANGED outcome
    /\ UNCHANGED <<accessed, request_body, response, pending, events, post_exc,
                   conn, held, held_names>>

InitProxy ==
    /\ InitCalls(1..NumCalls)
    /\ conn = ServerInit(TheUrl, EmptyDict)

NextProxy ==
    \/ Extend(Segments)
    \/ \E c \in DOMAIN pc : InvokeHeld(c, ConcArgTuples, ConcKwargDicts)
    \/ \E c \in DOMAIN pc : SendRequest(c)

SpecProxy == InitProxy /\ [][NextProxy]_vars

\* ------------------------------------------------------------- claims
Calls == DOMAIN pc

Count(ev, e) == Cardinality({ i \in 1..Len(ev) : ev[i] = e })

\* The caller has invoked the proxy.
Invoked(c) == call_args[c] # Nil

\* The caller passed a true notification flag.
IsNotificationCall(c) ==
    Invoked(c) /\ Truthy(DictGet(call_kwargs[c].m, "_notification", PyBool(FALSE)))

\* response.json() yielded a value and parse_result ran on it; its return
\* or raise is pending[c].
Parsed(c) == Count(events[c], "parse_result") = 1
DecodedOf(c) == response[c].body.value

\* s1.s2.....sn
RECURSIVE DotJoin(_)
DotJoin(segs) ==
    IF Len(segs) = 1
    THEN segs[1]
    ELSE DotJoin(SubSeq(segs, 1, Len(segs) - 1)) \o <<".">> \o segs[Len(segs)]

PublicChain(c) ==
    /\ accessed[c] # <<>>
    /\ \A i \in 1..Len(accessed[c]) : ~StartsWith(accessed[c][i], "_")

\* C1: a call whose POST yielded a response releases it exactly once before
\* it completes, on every way out; a call without a response releases
\* nothing.
C1_ReleasedExactlyOnce ==
    \A c \in Calls :
        /\ Count(events[c], "release") <= 1
        /\ response[c] = Nil => Count(events[c], "release") = 0
        /\ (response[c] # Nil /\ pc[c] \in {"releasing", "done"})
               => Count(events[c], "release") = 1
        /\ (response[c] # Nil /\ pc[c] = "reading")
               => Count(events[c], "release") = 0

\* C1 witness: a call that ended in a ProtocolError from parse_result, its
\* response released once.
C1_Witness ==
    \E c \in Calls :
        /\ pc[c] = "done"
        /\ response[c] # Nil
        /\ Parsed(c)
        /\ outcome[c].kind = "raise"
        /\ outcome[c].exc = "ProtocolError"
        /\ Count(events[c], "release") = 1

\* C2: every invocation that fails raises TransportError or ProtocolError
\* and nothing else, and a call returns a value only when nothing went
\* wrong (status 200 and, unless a notification, a decoded reply).
C2_OnlyTransportOrProtocolError ==
    \A c \in Calls :
        (Invoked(c) /\ pc[c] = "done") =>
            /\ outcome[c].kind = "raise"
                   => outcome[c].exc \in {"TransportError", "ProtocolError"}
            /\ outcome[c].kind = "return"
                   => /\ response[c] # Nil
                      /\ response[c].status = 200
                      /\ Parsed(c) \/ IsNotificationCall(c)

\* The field of a reply's error object, or the empty string.
ErrorField(error, key) ==
    IF error.t = "dict" /\ key \in DOMAIN error.m THEN error.m[key] ELSE PyStr("")

HasTruthyError(v) ==
    v.t = "dict" /\ Truthy(DictGet(v.m, "error", PyNone))

\* C3: parse_result on a mapping whose `error` is truthy, of whatever type,
\* raises ProtocolError(code, message, rawResponse), code and message empty
\* when absent.
C3_TruthyErrorIsProtocolError ==
    \A c \in Calls :
        (Parsed(c) /\ HasTruthyError(DecodedOf(c))) =>
            pending[c] = Raise("ProtocolError",
                               <<ErrorField(DecodedOf(c).m["error"], "code"),
                                 ErrorField(DecodedOf(c).m["error"], "message"),
                                 DecodedOf(c)>>)

\* The keyword arguments other than the notification flag.
RealKwargs(c) == DOMAIN call_kwargs[c].m \ {"_notification"}

MixedArgs(c) ==
    Invoked(c) /\ Len(call_args[c].q) >= 1 /\ RealKwargs(c) # {}

\* C4: an invocation with a positional and a keyword argument (the flag
\* aside) raises ProtocolError at once: nothing is serialized and no POST is
\* issued.
C4_MixedArgsRejectedBeforeIO ==
    \A c \in Calls :
        MixedArgs(c) =>
            /\ pc[c] = "done"
            /\ outcome[c].kind = "raise"
            /\ outcome[c].exc = "ProtocolError"
            /\ coro[c] = Nil
            /\ request_body[c] = Nil
            /\ events[c] = <<>>

\* C4 witness: a sole mapping passed together with a keyword argument and
\* the flag.
C4_Witness ==
    \E c \in Calls :
        /\ MixedArgs(c)
        /\ IsMapping(call_args[c].q[1])
        /\ "_notification" \in DOMAIN call_kwargs[c].m
        /\ pc[c] = "done"

\* C5: a notification's envelope has no id, its response body is never read
\* or parsed, and what the caller gets depends on the status alone.
C5_NotificationNoIdNoBody ==
    \A c \in Calls :
        IsNotificationCall(c) =>
            /\ request_body[c] # Nil => "id" \notin DOMAIN request_body[c].m
            /\ Count(events[c], "json") = 0
            /\ Count(events[c], "parse_result") = 0
            /\ (pc[c] = "done" /\ response[c] # Nil) =>
                   IF response[c].status = 200
                   THEN outcome[c] = Return(PyNone)
                   ELSE outcome[c].kind = "raise" /\ outcome[c].exc = "TransportError"

\* C5 witness: a notification answered 200 with an error object in the
\* body, completed.
C5_Witness ==
    \E c \in Calls :
        /\ IsNotificationCall(c)
        /\ pc[c] = "done"
        /\ response[c] # Nil
        /\ response[c].status = 200
        /\ response[c].body.read = "value"
        /\ HasTruthyError(response[c].body.value)
        /\ outcome[c] = Return(PyNone)

\* C6: after accessing public segments s1..sn from the Server the chain is
\* a proxy named s1.s2.....sn, and that name is what is dispatched and
\* written into the envelope, whatever the segments are.
C6_DispatchedNameIsDotJoin ==
    \A c \in Calls :
        PublicChain(c) =>
            /\ target[c].kind = "Method"
            /\ target[c].method_name = DotJoin(accessed[c])
            /\ coro[c] # Nil => coro[c].method_name = DotJoin(accessed[c])
            /\ request_body[c] # Nil =>
                   request_body[c].m["method"] = PyStr(Str(DotJoin(accessed[c])))

\* C7: no two envelopes of a session carry the same id.
C7_IdsUniqueInSession ==
    \A c1, c2 \in Calls :
        (/\ c1 # c2
         /\ request_body[c1] # Nil /\ "id" \in DOMAIN request_body[c1].m
         /\ request_body[c2] # Nil /\ "id" \in DOMAIN request_body[c2].m)
            => request_body[c1].m["id"] # request_body[c2].m["id"]

\* An envelope with its id value put aside.
WithoutId(envelope) == DictWithout(envelope.m, "id")

\* The call went the way the same method invoked with the entries of m as
\* keyword arguments goes: the same coroutine arguments, and an envelope
\* with the same fields (the id value aside).
SameAsKeywords(c, m) ==
    LET kw == request(target[c].method_name, PyTuple(<<>>), m) IN
    /\ kw.kind = "coroutine"
    /\ coro[c] = kw
    /\ request_body[c] # Nil =>
           LET env == serialize(kw.method_name, kw.params, kw.is_notification, 1) IN
           /\ env.ok
           /\ DOMAIN request_body[c].m = DOMAIN env.text.m
           /\ WithoutId(request_body[c]) = WithoutId(env.text)

\* Invoked with a mapping as the sole positional argument and no keyword
\* argument.
SoleMapping(c) ==
    /\ Invoked(c)
    /\ Len(call_args[c].q) = 1
    /\ IsMapping(call_args[c].q[1])
    /\ call_kwargs[c].m = EmptyDict

\* C8 as claimed: for every mapping m, the flag key included.
C8_SoleMappingSameAsKeywords ==
    \A c \in Calls :
        SoleMapping(c) => SameAsKeywords(c, call_args[c].q[1])

\* C8 as amended: for every mapping m without the notification-flag key, the
\* empty mapping included.
C8_SoleMappingSameAsKeywordsUnlessFlag ==
    \A c \in Calls :
        (SoleMapping(c) /\ "_notification" \notin DOMAIN call_args[c].q[1].m)
            => SameAsKeywords(c, call_args[c].q[1])

\* C8 witness: a non-empty mapping passed positionally, its envelope sent.
C8_Witness ==
    \E c \in Calls :
        /\ SoleMapping(c)
        /\ "x" \in DOMAIN call_args[c].q[1].m
        /\ request_body[c] # Nil
        /\ request_body[c].m["params"] = PyDict([x |-> PyInt(1)])

C10_ParseResultContract ==
    \A c \in Calls :
        Parsed(c) =>
            LET v == DecodedOf(c) IN
            IF v.t # "dict"
            THEN pending[c] = Raise("ProtocolError",
                                    <<PyStr("Response is not a dictionary")>>)
            ELSE IF HasTruthyError(v)
            THEN /\ pending[c].kind = "raise"
                 /\ pending[c].exc = "ProtocolError"
                 /\ Len(pending[c].args) = 3
                 /\ pending[c].args[3] = v
            ELSE IF "result" \notin DOMAIN v.m
            THEN pending[c] = Raise("ProtocolError",
                                    <<PyStr("Response without a result field")>>)
            ELSE pending[c] = Return(v.m["result"])

\* Not a notification: the flag absent or false.
IsNormalCall(c) == Invoked(c) /\ ~IsNotificationCall(c)

\* 'HTTP %d %s' % (response.status, response.reason)
HttpError(resp) ==
    Raise("TransportError",
          <<PyStr("HTTP " \o ToString(resp.status) \o " " \o resp.reason)>>)

\* C11: a normal call answered with a status other than 200, another 2xx
\* included, fails with a TransportError whose text holds the status and the
\* reason, and its body is neither read nor parsed.
C11_Non200IsTransportError ==
    \A c \in Calls :
        (IsNormalCall(c) /\ response[c] # Nil /\ response[c].status # 200) =>
            /\ pending[c] = HttpError(response[c])
            /\ pc[c] = "done" => outcome[c] = HttpError(response[c])
            /\ Count(events[c], "json") = 0
            /\ Count(events[c], "parse_result") = 0

\* C11 witness: a normal call answered 204 No Content, completed.
C11_Witness ==
    \E c \in Calls :
        /\ IsNormalCall(c)
        /\ pc[c] = "done"
        /\ response[c] # Nil
        /\ response[c].status = 204
        /\ outcome[c].kind = "raise"

\* C19: a notification answered with a status other than 200 does not
\* complete silently: it fails with the TransportError of the status and
\* reason, its body unread and its response released.
C19_NotificationNon200Fails ==
    \A c \in Calls :
        (IsNotificationCall(c) /\ response[c] # Nil /\ response[c].status # 200) =>
            /\ pending[c] = HttpError(response[c])
            /\ pc[c] = "done" => outcome[c] = HttpError(response[c])
            /\ Count(events[c], "json") = 0
            /\ Count(events[c], "release") = 1

\* C19 witness: a notification answered 500, completed with the error.
C19_Witness ==
    \E c \in Calls :
        /\ IsNotificationCall(c)
        /\ pc[c] = "done"
        /\ response[c] # Nil
        /\ response[c].status = 500
        /\ outcome[c].kind = "raise"
        /\ Count(events[c], "release") = 1

\* TransportError('Cannot deserialize response body', value_error)
DeserializeError ==
    Raise("TransportError",
          <<PyStr("Cannot deserialize response body"), PyExc("ValueError")>>)

\* The body was awaited and the read is over.
BodyWasRead(c) ==
    Count(events[c], "json") = 1 /\ pc[c] \in {"releasing", "done"}

\* C15: a normal call answered 200 with a body that is not JSON fails with a
\* TransportError wrapping the ValueError; the ValueError itself does not
\* reach the caller and parse_result does not run.
C15_UndecodableBodyIsTransportError ==
    \A c \in Calls :
        (BodyWasRead(c) /\ response[c].body.read = "ValueError") =>
            /\ IsNormalCall(c)
            /\ response[c].status = 200
            /\ pending[c] = DeserializeError
            /\ pc[c] = "done" => outcome[c] = DeserializeError
            /\ Count(events[c], "parse_result") = 0

\* C15 witness: such a call, completed.
C15_Witness ==
    \E c \in Calls :
        /\ pc[c] = "done"
        /\ Count(events[c], "json") = 1
        /\ response[c].body.read = "ValueError"
        /\ outcome[c].kind = "raise"

\* The place of an event in a call.
Rank(e) ==
    CASE e = "serialize" -> 1
      [] e = "post" -> 2
      [] e = "status" -> 3
      [] e = "json" -> 4
      [] e = "parse_result" -> 5
      [] e = "release" -> 6

Happened(c, e) == Count(events[c], e) >= 1

\* C18: the events of a call come in the order validation, serialization,
\* POST, status check, body read (exactly when the status is 200 and the call
\* is not a notification), parse_result, release: the body is not read before
\* the status check nor after the release, and the release comes last.
C18_EventsInOrder ==
    \A c \in Calls :
        LET ev == events[c] IN
        /\ \A i, j \in 1..Len(ev) : i < j => Rank(ev[i]) < Rank(ev[j])
        /\ ev # <<>> => (coro[c] # Nil /\ ev[1] = "serialize")
        /\ Happened(c, "status") => Happened(c, "post")
        /\ Happened(c, "json") <=>
               (Happened(c, "status") /\ response[c].status = 200 /\ IsNormalCall(c))
        /\ Happened(c, "parse_result") => Happened(c, "json")
        /\ Happened(c, "release") =>
               (Happened(c, "status") /\ ev[Len(ev)] = "release")
        /\ (pc[c] = "done" /\ response[c] # Nil) => ev[Len(ev)] = "release"

\* C18 witness: a completed call that went through all the events.
C18_Witness ==
    \E c \in Calls :
        /\ pc[c] = "done"
        /\ events[c] = <<"serialize", "post", "status", "json", "parse_result", "release">>

\* The notification flag is among the keyword arguments.
FlagPassed(c) == Invoked(c) /\ "_notification" \in DOMAIN call_kwargs[c].m

\* C14: a flag passed among the keyword arguments is taken out before
\* dispatch: it selects the notification path, it is no parameter of the
\* envelope, alone it does not make positional arguments a mix, and the
\* envelope has no id exactly when the flag is true.
C14_FlagExtracted ==
    \A c \in Calls :
        FlagPassed(c) =>
            LET flag == call_kwargs[c].m["_notification"]
                rest == PyDict(DictWithout(call_kwargs[c].m, "_notification"))
            IN
            /\ (Len(call_args[c].q) = 0 \/ RealKwargs(c) = {}) => coro[c] # Nil
            /\ coro[c] # Nil =>
                   /\ coro[c].is_notification = flag
                   /\ Len(call_args[c].q) = 0 => coro[c].params = rest
            /\ request_body[c] # Nil =>
                   /\ "id" \notin DOMAIN request_body[c].m <=> Truthy(flag)
                   /\ Len(call_args[c].q) = 0 =>
                          IF RealKwargs(c) = {}
                          THEN "params" \notin DOMAIN request_body[c].m
                          ELSE request_body[c].m["params"] = rest

\* C14 witness: x=1 and a true flag as keyword arguments, the envelope sent
\* with params {x: 1} and no id.
C14_Witness ==
    \E c \in Calls :
        /\ FlagPassed(c)
        /\ Truthy(call_kwargs[c].m["_notification"])
        /\ request_body[c] # Nil
        /\ "id" \notin DOMAIN request_body[c].m
        /\ "params" \in DOMAIN request_body[c].m
        /\ request_body[c].m["params"] = PyDict([x |-> PyInt(1)])

\* The fields every envelope has: jsonrpc, the dispatched name, and an id
\* exactly when the call is not a notification.
EnvelopeHead(c) ==
    /\ request_body[c].t = "dict"
    /\ DOMAIN request_body[c].m \subseteq {"jsonrpc", "method", "params", "id"}
    /\ request_body[c].m["jsonrpc"] = PyStr("2.0")
    /\ request_body[c].m["method"] = PyStr(Str(coro[c].method_name))
    /\ "id" \in DOMAIN request_body[c].m <=> ~IsNotificationCall(c)

\* params is absent.
NoParams(c) == "params" \notin DOMAIN request_body[c].m

\* params is the value v.
ParamsAre(c, v) ==
    "params" \in DOMAIN request_body[c].m /\ request_body[c].m["params"] = v

\* The positional arguments as an array, the keyword arguments (the flag
\* aside) as an object.
ArgsArray(c) == PyList(call_args[c].q)
KwargsObject(c) == PyDict(DictWithout(call_kwargs[c].m, "_notification"))

\* C16 as claimed: params is omitted when no arguments were given, and is
\* otherwise the positional arguments as an array or the keyword arguments as
\* an object.
C16_EnvelopeFields ==
    \A c \in Calls :
        request_body[c] # Nil =>
            /\ EnvelopeHead(c)
            /\ IF Len(call_args[c].q) >= 1
               THEN ParamsAre(c, ArgsArray(c))
               ELSE IF RealKwargs(c) # {}
               THEN ParamsAre(c, KwargsObject(c))
               ELSE NoParams(c)

\* C16 as amended: a sole positional argument that is a mapping is sent as
\* that object, and omitted when it is empty.
C16_EnvelopeFieldsSoleMapping ==
    \A c \in Calls :
        request_body[c] # Nil =>
            /\ EnvelopeHead(c)
            /\ IF Len(call_args[c].q) = 1 /\ IsMapping(call_args[c].q[1])
               THEN IF DOMAIN call_args[c].q[1].m = {}
                    THEN NoParams(c)
                    ELSE ParamsAre(c, call_args[c].q[1])
               ELSE IF Len(call_args[c].q) >= 1
               THEN ParamsAre(c, ArgsArray(c))
               ELSE IF RealKwargs(c) # {}
               THEN ParamsAre(c, KwargsObject(c))
               ELSE NoParams(c)

\* C16 witness: two positional arguments sent as an array, with an id.
C16_Witness ==
    \E c \in Calls :
        /\ request_body[c] # Nil
        /\ ParamsAre(c, PyList(<<PyInt(1), PyInt(2)>>))
        /\ "id" \in DOMAIN request_body[c].m

Posts(c) == Count(events[c], "post")

\* C13 as claimed: an invocation issues at most one POST, none when
\* __request rejects the arguments and exactly one when it accepts them.
C13_OnePostWhenAccepted ==
    \A c \in Calls :
        /\ Posts(c) <= 1
        /\ (Invoked(c) /\ coro[c] = Nil) => Posts(c) = 0
        /\ (pc[c] = "done" /\ coro[c] # Nil) => Posts(c) = 1

\* C13 as amended: exactly one when the arguments are accepted and the
\* envelope can be encoded, none when encoding fails; never a second POST,
\* whatever failure follows the first.
C13_OnePostWhenSerialized ==
    \A c \in Calls :
        /\ Posts(c) <= 1
        /\ (Invoked(c) /\ coro[c] = Nil) => Posts(c) = 0
        /\ (pc[c] \notin {"accumulating", "created"} /\ coro[c] # Nil) =>
               Posts(c) = IF Serializable(coro[c].params) THEN 1 ELSE 0

\* C13 witness: a call whose POST raised, completed after that one POST.
C13_Witness ==
    \E c \in Calls :
        /\ pc[c] = "done"
        /\ Posts(c) = 1
        /\ response[c] = Nil
        /\ outcome[c].kind = "raise"


\* The client exceptions send_request catches around the POST.
ClientExceptions == { PyExc("ClientResponseError"), PyExc("ClientOSError") }

PostFailedWithClientException(c) == post_exc[c] \in ClientExceptions

\* C20: when the POST itself fails with a connection-level or response-level
\* client exception, so that no response object is obtained, the call fails
\* with a TransportError carrying the method name and the underlying
\* exception, and no status check, body read, parse or release is attempted
\* for that call.
C20_PostFailureIsTransportError ==
    \A c \in Calls :
        PostFailedWithClientException(c) =>
            /\ pc[c] = "done"
            /\ outcome[c] = Raise("TransportError",
                                  <<PyStr("Error calling method '"
                                          \o Str(coro[c].method_name) \o "'"),
                                    post_exc[c]>>)
            /\ response[c] = Nil
            /\ events[c] = <<"serialize", "post">>
            /\ \A e \in {"status", "json", "parse_result", "release"} :
                   ~Happened(c, e)

C20_Witness ==
    \E c \in Calls :
        /\ post_exc[c] = PyExc("ClientOSError")
        /\ pc[c] = "done"
        /\ outcome[c].kind = "raise"
        /\ outcome[c].exc = "TransportError"
        /\ outcome[c].args[2] = PyExc("ClientOSError")


\* Everything the model keeps for one call.
OwnState(c) ==
    <<pc[c], target[c], accessed[c], call_args[c], call_kwargs[c], coro[c],
      request_body[c], response[c], pending[c], outcome[c], events[c],
      post_exc[c]>>

\* What a call comes to, from its own method name, its own arguments and the
\* answer to its own POST.
OwnOutcome(c) ==
    LET own == request(DotJoin(accessed[c]), call_args[c], call_kwargs[c]) IN
    IF own.kind = "raise" THEN own
    ELSE IF ~Serializable(own.params)
    THEN Raise("TypeError", <<PyStr("not JSON serializable")>>)
    ELSE IF post_exc[c] # Nil
    THEN IF post_exc[c] \in ClientExceptions
         THEN Raise("TransportError",
                    <<PyStr("Error calling method '"
                            \o Str(DotJoin(accessed[c])) \o "'"), post_exc[c]>>)
         ELSE Raise(post_exc[c].cls, <<>>)
    ELSE IF response[c].status # 200 THEN HttpError(response[c])
    ELSE IF Truthy(own.is_notification) THEN Return(PyNone)
    ELSE IF response[c].body.read = "ValueError" THEN DeserializeError
    ELSE IF response[c].body.read = "value"
    THEN parse_result(response[c].body.value)
    ELSE Raise(response[c].body.read, <<>>)

OutcomeIsOwn ==
    \A c \in Calls :
        /\ (pc[c] = "done" /\ Invoked(c)) => outcome[c] = OwnOutcome(c)
        /\ pc[c] = "releasing" => pending[c] = OwnOutcome(c)

\* One call moves and every other call's state, its response and its release
\* included, stays as it was; the endpoint and the headers stay as they were.
OneCallSteps ==
    /\ \E c \in Calls : \A d \in Calls \ {c} : OwnState(d)' = OwnState(d)
    /\ conn' = conn

\* C12: for any interleaving of several calls in flight on the same Server,
\* each call's outcome is determined by its own method name, its own
\* arguments and the response to its own POST alone; each call reads and
\* releases its own response only; and no call changes the Server's endpoint
\* or header configuration.
C12_CallsIndependent == []OutcomeIsOwn /\ [][OneCallSteps]_vars

C12_Witness ==
    \E c, d \in Calls :
        /\ c # d
        /\ pc[c] = "done" /\ outcome[c] = Return(PyInt(42))
        /\ response[d] # Nil /\ response[d].status = 500
        /\ Happened(c, "release")
        /\ pc[d] = "done" /\ Happened(d, "release")
        /\ conn = ServerInit(TheUrl, EmptyDict)


\* The name the chain of kept Method i spells.
HeldName(i) == DotJoin(held_names[i])

\* Kept Method j was obtained by extending kept Method i with one segment.
Extends(j, i) ==
    /\ Len(held_names[j]) = Len(held_names[i]) + 1
    /\ SubSeq(held_names[j], 1, Len(held_names[i])) = held_names[i]

\* C17: a Method is never changed by using it: after extending p with a
\* segment to obtain q, invoking p dispatches p's own name and invoking q
\* dispatches q's; and invoking the same Method any number of times
\* dispatches the same name each time, each invocation having its own
\* request.
C17_ProxyUnchangedByUse ==
    /\ \A i \in 1..Len(held) :
           held[i] = [kind |-> "Method", method_name |-> HeldName(i)]
    /\ \A c \in Calls :
           invoked_proxy[c] # 0 =>
               /\ coro[c] # Nil =>
                      coro[c].method_name = HeldName(invoked_proxy[c])
               /\ request_body[c] # Nil =>
                      request_body[c].m["method"] =
                          PyStr(Str(HeldName(invoked_proxy[c])))

C17_Witness ==
    \E c, d \in Calls : \E i, j \in 1..Len(held) :
        /\ c # d
        /\ Extends(j, i)
        /\ invoked_proxy[c] = i /\ invoked_proxy[d] = i
        /\ request_body[c] # Nil /\ request_body[d] # Nil
        /\ request_body[c].m["method"] = PyStr(Str(HeldName(i)))
        /\ request_body[d].m["method"] = PyStr(Str(HeldName(i)))
        /\ HeldName(j) # HeldName(i)

====
